---- MODULE Spec2Model ----
(***************************************************************************)
(* A model of pyarrow/filesystem.py: the abstract FileSystem interface,    *)
(* the LocalFileSystem singleton, the S3FSWrapper directory probes and     *)
(* walk generator, the backend resolver _ensure_filesystem and the         *)
(* URI resolver resolve_filesystem_and_path.                               *)
(*                                                                         *)
(* Python strings are sequences of one-character strings, so that          *)
(* posixpath.split, str.startswith, str.replace, str.split and urlparse    *)
(* are computed on the characters.  The character "SUP2" stands for        *)
(* U+00B2 (SUPERSCRIPT TWO).                                               *)
(***************************************************************************)
EXTENDS Integers, Sequences, FiniteSets, TLC

VARIABLES
    \* LocalFileSystem class attribute and the threads calling get_instance
    _instance, constructed, pc, tmp, returned,
    \* the object store behind S3FSWrapper, the walk generator frames, the
    \* triples yielded so far and, for each, the call that produced it
    store, markers, dupdirs, dirsfirst, stack, yielded, calls,
    \* the number of delete, mkdir and open calls made while the generator
    \* was suspended
    ops,
    \* the last S3FSWrapper.isdir call
    isdir_call,
    \* the local directory tree and the last LocalFileSystem.mkdir call
    dirs, mkdir_call,
    \* the last _ensure_filesystem call
    ensure_call,
    \* the backend tree and the running FileSystem.disk_usage call
    du_files, du_path, du_pc, du_walk, du_total, du_stats, du_walked,
    \* the last resolve_filesystem_and_path call
    resolve_call

singletonVars == <<_instance, constructed, pc, tmp, returned>>
walkVars == <<store, markers, dupdirs, dirsfirst, stack, yielded, calls, ops>>
mkdirVars == <<dirs, mkdir_call>>
duVars == <<du_files, du_path, du_pc, du_walk, du_total, du_stats, du_walked>>
vars == <<singletonVars, walkVars, isdir_call, mkdirVars, ensure_call, duVars,
          resolve_call>>

None == 0

(***************************************************************************)
(* Python str operations on sequences of characters                        *)
(***************************************************************************)
\* ord() of the characters that occur in the model's inputs
Code(c) ==
    CASE c = "#" -> 35 [] c = "/" -> 47 [] c = "0" -> 48 [] c = "1" -> 49
      [] c = "2" -> 50 [] c = "3" -> 51 [] c = "9" -> 57 [] c = ":" -> 58
      [] c = "?" -> 63 [] c = "a" -> 97 [] c = "b" -> 98 [] c = "d" -> 100
      [] c = "e" -> 101 [] c = "f" -> 102 [] c = "g" -> 103 [] c = "h" -> 104
      [] c = "i" -> 105 [] c = "l" -> 108 [] c = "s" -> 115 [] c = "t" -> 116
      [] c = "v" -> 118 [] c = "w" -> 119 [] c = "x" -> 120
      [] c = "SUP2" -> 178

\* s < t for Python strings (lexicographic by code point)
RECURSIVE StrLess(_, _)
StrLess(s, t) ==
    IF t = <<>> THEN FALSE
    ELSE IF s = <<>> THEN TRUE
    ELSE IF Head(s) = Head(t) THEN StrLess(Tail(s), Tail(t))
    ELSE Code(Head(s)) < Code(Head(t))

\* s.startswith(p)
StartsWith(s, p) == Len(s) >= Len(p) /\ SubSeq(s, 1, Len(p)) = p

\* s.replace(old, new): non-overlapping occurrences, left to right
RECURSIVE StrReplace(_, _, _)
StrReplace(s, old, new) ==
    IF s = <<>> THEN <<>>
    ELSE IF StartsWith(s, old)
         THEN new \o StrReplace(SubSeq(s, Len(old) + 1, Len(s)), old, new)
         ELSE <<Head(s)>> \o StrReplace(Tail(s), old, new)

\* s.rfind(c) + 1: the 1-based position of the last c in s, 0 when absent
RFind1(s, c) ==
    IF \E i \in 1..Len(s) : s[i] = c
    THEN CHOOSE i \in 1..Len(s) : s[i] = c /\ \A j \in (i+1)..Len(s) : s[j] # c
    ELSE 0

\* s.find(c) + 1: the 1-based position of the first c in s, 0 when absent
Find1(s, c) ==
    IF \E i \in 1..Len(s) : s[i] = c
    THEN CHOOSE i \in 1..Len(s) : s[i] = c /\ \A j \in 1..(i-1) : s[j] # c
    ELSE 0

\* s.rstrip('/')
RECURSIVE RStripSep(_)
RStripSep(s) ==
    IF s # <<>> /\ s[Len(s)] = "/" THEN RStripSep(SubSeq(s, 1, Len(s) - 1)) ELSE s

\* posixpath.split(p) -> [head, tail]
posixpath_split(p) ==
    LET i == RFind1(p, "/")
        head == SubSeq(p, 1, i)
        tail == SubSeq(p, i + 1, Len(p))
    IN  [head |-> IF head # <<>> /\ (\E k \in 1..Len(head) : head[k] # "/")
                  THEN RStripSep(head) ELSE head,
         tail |-> tail]

Basename(p) == posixpath_split(p).tail

\* a set as a list, in some order
RECURSIVE SetToSeq(_)
SetToSeq(S) ==
    IF S = {} THEN <<>>
    ELSE LET x == CHOOSE y \in S : TRUE IN <<x>> \o SetToSeq(S \ {x})

\* sorted(list of str)
Sorted(seq) == SortSeq(seq, StrLess)

\* [f(x) for x in seq]
RECURSIVE MapBasename(_)
MapBasename(seq) ==
    IF seq = <<>> THEN <<>> ELSE <<Basename(Head(seq))>> \o MapBasename(Tail(seq))

Range(seq) == {seq[i] : i \in 1..Len(seq)}

(***************************************************************************)
(* Bounds                                                                  *)
(***************************************************************************)
NumThreads == 2
MaxCalls == 2
MaxDepth == 3
MaxOps == 1
MaxListing == 2
MaxMro == 3

Threads == 1..NumThreads

NoCall == [op |-> "none"]

SingletonIdle ==
    /\ _instance = None
    /\ constructed = 0
    /\ pc = [t \in Threads |-> "idle"]
    /\ tmp = [t \in Threads |-> None]
    /\ returned = [t \in Threads |-> <<>>]

WalkIdle ==
    /\ store = {}
    /\ markers = {}
    /\ ops = 0
    /\ dupdirs = FALSE
    /\ dirsfirst = FALSE
    /\ stack = <<>>
    /\ yielded = <<>>
    /\ calls = <<>>

IsdirIdle == isdir_call = NoCall

MkdirIdle == dirs = {} /\ mkdir_call = NoCall

EnsureIdle == ensure_call = NoCall

DuIdle ==
    /\ du_files = {}
    /\ du_path = <<>>
    /\ du_pc = "idle"
    /\ du_walk = <<>>
    /\ du_total = 0
    /\ du_stats = 0
    /\ du_walked = FALSE

ResolveIdle == resolve_call = NoCall

(***************************************************************************)
(* LocalFileSystem.get_instance, one bytecode-level step per action.       *)
(* Threads may be switched between the test of cls._instance, the          *)
(* constructor call, the attribute store and the attribute load of the     *)
(* return statement.                                                       *)
(***************************************************************************)
SingletonInit ==
    /\ SingletonIdle /\ WalkIdle /\ IsdirIdle /\ MkdirIdle /\ EnsureIdle
    /\ DuIdle /\ ResolveIdle

notSingleton == <<walkVars, isdir_call, mkdirVars, ensure_call, duVars, resolve_call>>

\* line 202: if cls._instance is None
get_instance_test(t) ==
    /\ pc[t] = "idle"
    /\ Len(returned[t]) < MaxCalls
    /\ pc' = [pc EXCEPT ![t] = IF _instance = None THEN "construct" ELSE "return"]
    /\ UNCHANGED <<_instance, constructed, tmp, returned, notSingleton>>

\* line 203, right-hand side: LocalFileSystem()
get_instance_construct(t) ==
    /\ pc[t] = "construct"
    /\ constructed' = constructed + 1
    /\ tmp' = [tmp EXCEPT ![t] = constructed + 1]
    /\ pc' = [pc EXCEPT ![t] = "assign"]
    /\ UNCHANGED <<_instance, returned, notSingleton>>

\* line 203, store: cls._instance = <new object>
get_instance_assign(t) ==
    /\ pc[t] = "assign"
    /\ _instance' = tmp[t]
    /\ pc' = [pc EXCEPT ![t] = "return"]
    /\ UNCHANGED <<constructed, tmp, returned, notSingleton>>

\* line 204: return cls._instance
get_instance_return(t) ==
    /\ pc[t] = "return"
    /\ returned' = [returned EXCEPT ![t] = Append(@, _instance)]
    /\ pc' = [pc EXCEPT ![t] = "idle"]
    /\ UNCHANGED <<_instance, constructed, tmp, notSingleton>>

SingletonNext ==
    \/ \E t \in Threads : get_instance_test(t)
    \/ \E t \in Threads : get_instance_construct(t)
    \/ \E t \in Threads : get_instance_assign(t)
    \/ \E t \in Threads : get_instance_return(t)

SpecSingleton == SingletonInit /\ [][SingletonNext]_vars

\* C1: under any interleaving of threads calling get_instance while no
\* instance exists, the LocalFileSystem constructor runs at most once and
\* every call returns the identical instance.
C1_SingleInitialization ==
    /\ constructed <= 1
    /\ \A t, u \in Threads :
         \A i \in 1..Len(returned[t]) : \A j \in 1..Len(returned[u]) :
             returned[t][i] = returned[u][j]

(***************************************************************************)
(* S3FSWrapper.walk over an object store.                                  *)
(*                                                                         *)
(* The store is a set of object keys "bucket/key", with a set of created   *)
(* directory markers.  _ls lists one level with detail: the bucket         *)
(* markers for the root, and otherwise the objects directly under the      *)
(* prefix and one pseudo-directory marker per common prefix (reported      *)
(* twice when dupdirs holds).  The consumer of the lazy generator may call *)
(* delete, mkdir and open on the wrapper between two triples.              *)
(***************************************************************************)
S3Scheme == <<"s", "3", ":", "/", "/">>

KeyUniverse ==
    { <<"b", "/", "f">>,
      <<"b", "/", "s">>,
      <<"b", "/", "s", "/", "f">>,
      <<"b", "/", "s", "/", "t", "/", "g">>,
      <<"b", "/", "t", "/", "f">>,
      <<"s", "/", "g">>,
      <<"s", "/", "t", "/", "g">>,
      <<"s", "/", "s", "/", "f">> }

WalkRoots ==
    { <<>>, <<"b">>, S3Scheme \o <<"b">>, <<"b", "/", "s">>, <<"s">> }

\* lines 376-380
_sanitize_s3(path) ==
    IF StartsWith(path, S3Scheme) THEN StrReplace(path, S3Scheme, <<>>) ELSE path

RECURSIVE Entries(_, _, _)
Entries(keys, class, twice) ==
    IF keys = <<>> THEN <<>>
    ELSE LET e == [Key |-> Head(keys), StorageClass |-> class]
         IN  (IF twice THEN <<e, e>> ELSE <<e>>) \o Entries(Tail(keys), class, twice)

\* the first path component of rest below a prefix
FirstComponent(rest) ==
    IF Find1(rest, "/") = 0 THEN rest ELSE SubSeq(rest, 1, Find1(rest, "/") - 1)

\* self.fs._ls(path, refresh): the raw listing of one level
_ls(objects, dirmarkers, path, dup, dfirst) ==
    IF path = <<>>
    THEN Entries(Sorted(SetToSeq({FirstComponent(k) : k \in objects \cup dirmarkers})),
                 "BUCKET", FALSE)
    ELSE LET prefix == path \o <<"/">>
             rest(k) == SubSeq(k, Len(prefix) + 1, Len(k))
             under == {k \in objects : StartsWith(k, prefix)}
             marked == {k \in dirmarkers : StartsWith(k, prefix) /\ rest(k) # <<>>}
             dirkeys == {prefix \o FirstComponent(rest(k)) :
                            k \in {u \in under : Find1(rest(u), "/") > 0} \cup marked}
             filekeys == {k \in under : Find1(rest(k), "/") = 0}
             dirEntries == Entries(Sorted(SetToSeq(dirkeys)), "DIRECTORY", dup)
             fileEntries == Entries(Sorted(SetToSeq(filekeys)), "STANDARD", FALSE)
         IN  IF dfirst THEN dirEntries \o fileEntries ELSE fileEntries \o dirEntries

\* self.fs.rm(path, recursive): the keys left in a set of keys
fs_rm(keys, path, recursive) ==
    IF recursive
    THEN {k \in keys : k # path /\ ~StartsWith(k, path \o <<"/">>)}
    ELSE keys \ {path}

\* self.fs.mkdirs(path) and self.fs.mkdir(path): the directory markers
fs_mkdir(dirmarkers, path) == dirmarkers \cup {path}

\* self.fs.open(path, mode): writing creates the object
fs_open(objects, path, mode) ==
    IF mode = "wb" THEN objects \cup {path} ELSE objects

\* lines 351-361: the set directories after the loop over the listing
walk_dirset(listing) ==
    {listing[i].Key : i \in {j \in 1..Len(listing) : listing[j].StorageClass = "DIRECTORY"}}

\* lines 352-361: the set files after the loop over the listing
walk_fileset(listing) ==
    {listing[i].Key : i \in {j \in 1..Len(listing) :
                                listing[j].StorageClass \notin {"DIRECTORY", "BUCKET"}}}

\* lines 350, 354-355: the local path when the triple is yielded; the loop
\* rebinds it to the key of every listed entry
walk_path(arg, listing) ==
    IF listing = <<>> THEN _sanitize_s3(arg) ELSE listing[Len(listing)].Key

\* lines 364-365
walk_files(listing) ==
    Sorted(MapBasename(SetToSeq(walk_fileset(listing) \ walk_dirset(listing))))

\* the directory names taken from the listed entries without the set
walk_directories_list(listing) ==
    LET IsDirectory(e) == e.StorageClass = "DIRECTORY"
        Keys[n \in 0..Len(listing)] ==
            IF n = 0 THEN <<>>
            ELSE IF IsDirectory(listing[n]) THEN Append(Keys[n - 1], listing[n].Key)
            ELSE Keys[n - 1]
    IN  Sorted(MapBasename(Keys[Len(listing)]))

\* lines 366-367
walk_directories(listing) ==
    Sorted(MapBasename(SetToSeq(walk_dirset(listing))))

\* the loop over the directories taken from the end of the list
walk_next_reversed(directories, n) == directories[Len(directories) - n + 1]

\* line 371: the directory taken by the n-th iteration of the loop
walk_next(directories, n) == directories[n]

Frame(arg, cpath) ==
    [arg |-> arg, pc |-> "start", directories |-> <<>>, idx |-> 0, cpath |-> cpath]

Top == stack[Len(stack)]

notWalk == <<singletonVars, isdir_call, mkdirVars, ensure_call, duVars, resolve_call>>

WalkInit ==
    /\ store \in SUBSET KeyUniverse
    /\ markers = {}
    /\ ops = 0
    /\ dupdirs \in BOOLEAN
    /\ dirsfirst \in BOOLEAN
    /\ \E root \in WalkRoots : stack = <<Frame(root, <<>>)>>
    /\ yielded = <<>>
    /\ calls = <<>>
    /\ SingletonIdle /\ IsdirIdle /\ MkdirIdle /\ EnsureIdle /\ DuIdle /\ ResolveIdle

\* lines 350-369: the generator runs from its start to the yield
walk_yield ==
    /\ stack # <<>>
    /\ Top.pc = "start"
    /\ LET prefix == _sanitize_s3(Top.arg)
           listing == _ls(store, markers, prefix, dupdirs, dirsfirst)
           directories == walk_directories(listing)
       IN  /\ yielded' = Append(yielded,
                                <<walk_path(Top.arg, listing), directories, walk_files(listing)>>)
           /\ calls' = Append(calls, [prefix |-> prefix, listing |-> listing,
                                      cpath |-> Top.cpath])
           /\ stack' = [stack EXCEPT ![Len(stack)] =
                            [@ EXCEPT !.pc = "loop", !.directories = directories, !.idx = 1]]
    /\ UNCHANGED <<store, markers, ops, dupdirs, dirsfirst, notWalk>>

\* lines 371-372: the next directory's generator is created
walk_recurse ==
    /\ stack # <<>>
    /\ Top.pc = "loop"
    /\ Top.idx <= Len(Top.directories)
    /\ Len(stack) < MaxDepth
    /\ LET directory == walk_next(Top.directories, Top.idx)
       IN  stack' = Append([stack EXCEPT ![Len(stack)] = [@ EXCEPT !.idx = @ + 1]],
                           Frame(directory, Append(Top.cpath, directory)))
    /\ UNCHANGED <<store, markers, ops, dupdirs, dirsfirst, yielded, calls, notWalk>>

\* lines 371-373: the loop over directories is exhausted, the generator ends
walk_return ==
    /\ stack # <<>>
    /\ Top.pc = "loop"
    /\ Top.idx > Len(Top.directories)
    /\ stack' = SubSeq(stack, 1, Len(stack) - 1)
    /\ UNCHANGED <<store, markers, ops, dupdirs, dirsfirst, yielded, calls, notWalk>>

\* the paths the consumer of the generator passes to the wrapper
OpPaths ==
    { <<"s", "/", "g">>, <<"b", "/", "t">> }

\* the consumer is between two triples: the generator is not started, or
\* suspended at the yield of line 369
Suspended ==
    /\ stack # <<>>
    /\ \/ Len(stack) = 1 /\ Top.pc = "start"
       \/ Top.pc = "loop" /\ Top.idx = 1
    /\ ops < MaxOps

\* lines 282-285: DaskFileSystem.delete, also reached through FileSystem.rm
\* (lines 102-106)
delete_action ==
    /\ Suspended
    /\ \E path \in OpPaths, recursive \in BOOLEAN :
           /\ store' = fs_rm(store, path, recursive)
           /\ markers' = IF recursive THEN fs_rm(markers, path, recursive) ELSE markers
           /\ ops' = ops + 1
    /\ UNCHANGED <<dupdirs, dirsfirst, stack, yielded, calls, notWalk>>

\* lines 292-298: DaskFileSystem.mkdir
mkdir_store_action ==
    /\ Suspended
    /\ \E path \in OpPaths, create_parents \in BOOLEAN :
           /\ markers' = fs_mkdir(markers, path)
           /\ ops' = ops + 1
    /\ UNCHANGED <<store, dupdirs, dirsfirst, stack, yielded, calls, notWalk>>

\* lines 300-306: DaskFileSystem.open, for reading or for writing
open_action ==
    /\ Suspended
    /\ \E path \in OpPaths, write \in BOOLEAN :
           /\ store' = fs_open(store, path, IF write THEN "wb" ELSE "rb")
           /\ ops' = ops + 1
    /\ UNCHANGED <<markers, dupdirs, dirsfirst, stack, yielded, calls, notWalk>>

WalkNext ==
    \/ walk_yield \/ walk_recurse \/ walk_return
    \/ delete_action \/ mkdir_store_action \/ open_action

SpecWalk == WalkInit /\ [][WalkNext]_vars

\* the root prefix of the running walk
WalkRoot == calls[1].prefix

\* C3: the first component of every yielded triple is the prefix that was
\* listed to produce it, never the key of a listed entry.
C3_RootIsListedPrefix ==
    \A i \in 1..Len(yielded) : yielded[i][1] = calls[i].prefix

\* the objects stored at any depth under the prefix d
FilesUnder(d) == {k \in store : StartsWith(k, d \o <<"/">>)}

\* the objects whose key is not also reported as a pseudo-directory
PlainObjects == {k \in store : \A u \in store : ~StartsWith(u, k \o <<"/">>)}

\* the yielded triples that list the object k among the files of its
\* directory
Attributions(k) ==
    {i \in 1..Len(yielded) :
        /\ calls[i].prefix = posixpath_split(k).head
        /\ Basename(k) \in Range(yielded[i][3])}

\* C2: when walk(d) is exhausted over a store that no call changed
\* meanwhile, every regular object stored at any depth under a root prefix
\* d is among the files of exactly one yielded triple, the one that lists
\* its directory.
C2_EveryFileExactlyOnce ==
    (stack = <<>> /\ WalkRoot # <<>> /\ ops = 0) =>
        \A k \in FilesUnder(WalkRoot) \cap PlainObjects :
            Cardinality(Attributions(k)) = 1

StrictlySorted(seq) ==
    \A a, b \in 1..Len(seq) : a < b => StrLess(seq[a], seq[b])

DirectoryKeys(listing) ==
    {listing[j].Key : j \in {n \in 1..Len(listing) : listing[n].StorageClass = "DIRECTORY"}}

\* C4: in every yielded triple the directories list is sorted, holds each
\* pseudo-directory of the raw listing exactly once whatever the number of
\* its DIRECTORY entries, the files list is sorted and holds exactly the
\* regular entries whose key is not a directory key, and BUCKET entries
\* are in neither list.
C4_DirectoriesDeduplicated ==
    \A i \in 1..Len(yielded) :
        LET listing == calls[i].listing
            triple == yielded[i]
            entries == 1..Len(listing)
        IN  /\ StrictlySorted(triple[2])
            /\ StrictlySorted(triple[3])
            /\ Range(triple[2]) = {Basename(k) : k \in DirectoryKeys(listing)}
            /\ Range(triple[3]) =
                   {Basename(listing[j].Key) :
                       j \in {n \in entries :
                                /\ listing[n].StorageClass \notin {"DIRECTORY", "BUCKET"}
                                /\ listing[n].Key \notin DirectoryKeys(listing)}}
            /\ \A j \in entries :
                   listing[j].StorageClass = "BUCKET" =>
                       Basename(listing[j].Key) \notin Range(triple[2]) \cup Range(triple[3])
            /\ \A k \in DirectoryKeys(listing) : Basename(k) \notin Range(triple[3])

\* a triple was yielded for a listing with a duplicated DIRECTORY entry and
\* a regular entry whose key is also a directory key
C4_Witness ==
    \E i \in 1..Len(yielded) :
        LET listing == calls[i].listing
        IN  /\ \E a, b \in 1..Len(listing) :
                   /\ a # b
                   /\ listing[a] = listing[b]
                   /\ listing[a].StorageClass = "DIRECTORY"
            /\ \E a \in 1..Len(listing) :
                   /\ listing[a].StorageClass = "STANDARD"
                   /\ listing[a].Key \in DirectoryKeys(listing)
            /\ Len(yielded[i][2]) >= 2

\* the order of a depth-first pre-order traversal with sorted siblings:
\* a call path precedes its extensions, and siblings compare by name
RECURSIVE PathLess(_, _)
PathLess(p, q) ==
    IF q = <<>> THEN FALSE
    ELSE IF p = <<>> THEN TRUE
    ELSE IF Head(p) = Head(q) THEN PathLess(Tail(p), Tail(q))
    ELSE StrLess(Head(p), Head(q))

Front(seq) == SubSeq(seq, 1, Len(seq) - 1)

\* C10: the triples are yielded in depth-first pre-order: a directory's
\* triple before the triples of its subdirectories, subdirectories in sorted
\* name order, and the whole subtree of a subdirectory before its next
\* sibling; when the walk is exhausted every listed directory was entered.
C10_PreOrder ==
    /\ \A i, j \in 1..Len(calls) :
           i < j => PathLess(calls[i].cpath, calls[j].cpath)
    /\ \A j \in 2..Len(calls) :
           \E i \in 1..(j - 1) :
               /\ calls[i].cpath = Front(calls[j].cpath)
               /\ calls[j].cpath[Len(calls[j].cpath)] \in Range(yielded[i][2])
    /\ stack = <<>> =>
           \A i \in 1..Len(calls) : \A d \in Range(yielded[i][2]) :
               \E j \in (i + 1)..Len(calls) : calls[j].cpath = Append(calls[i].cpath, d)

\* an exhausted walk that entered a subdirectory, a directory below it, and
\* then the subdirectory's next sibling
C10_Witness ==
    /\ stack = <<>>
    /\ \E i, j, k \in 1..Len(calls) :
           /\ i < j /\ j < k
           /\ Len(calls[i].cpath) = 1
           /\ Len(calls[j].cpath) = 2
           /\ Len(calls[k].cpath) = 1

(***************************************************************************)
(* S3FSWrapper.isdir                                                       *)
(***************************************************************************)
IsdirPaths ==
    { <<>>, <<"b">>, <<"b", "/", "a">>, S3Scheme \o <<"b">>,
      S3Scheme \o <<"b", "/", "a">> }

ListedKeys ==
    { <<"b">>, <<"b", "/", "a">>, <<"b", "/", "a", "/", "f">>,
      <<"b", "/", "a", "/", "g">> }

\* what self.fs.ls(path) does: it raises OSError or returns a list of keys
LsResponses ==
    {[raises |-> TRUE, contents |-> <<>>]} \cup
    {[raises |-> FALSE, contents |-> c] :
        c \in UNION {[1..n -> ListedKeys] : n \in 0..MaxListing}}

\* lines 323-332
isdir(path, response) ==
    LET sanitized == _sanitize_s3(path)
        contents == response.contents
    IN  IF response.raises THEN FALSE
        ELSE IF Len(contents) = 1 /\ contents[1] = sanitized THEN FALSE
        ELSE TRUE

IsdirInit ==
    /\ SingletonIdle /\ WalkIdle /\ IsdirIdle /\ MkdirIdle /\ EnsureIdle
    /\ DuIdle /\ ResolveIdle

isdir_action ==
    /\ \E path \in IsdirPaths, response \in LsResponses :
           isdir_call' = [op |-> "isdir", path |-> path, response |-> response,
                          result |-> isdir(path, response)]
    /\ UNCHANGED <<singletonVars, walkVars, mkdirVars, ensure_call, duVars, resolve_call>>

IsdirNext == isdir_action

SpecIsdir == IsdirInit /\ [][IsdirNext]_vars

\* C5: isdir returns false when the listing of the scheme-stripped path is
\* empty, when it is exactly one entry equal to that path, and when the
\* listing raises; it returns true for every other non-empty listing.
C5_IsdirClassification ==
    isdir_call.op = "isdir" =>
        LET contents == isdir_call.response.contents
            stripped == IF StartsWith(isdir_call.path, S3Scheme)
                        THEN SubSeq(isdir_call.path, Len(S3Scheme) + 1, Len(isdir_call.path))
                        ELSE isdir_call.path
        IN  isdir_call.result =
                ( /\ ~isdir_call.response.raises
                  /\ contents # <<>>
                  /\ contents # <<stripped>> )

(***************************************************************************)
(* LocalFileSystem.mkdir over a tree of directories.  dirs is the set of   *)
(* existing directories, as paths relative to an existing working          *)
(* directory.                                                              *)
(***************************************************************************)
MkdirPaths ==
    { <<"a">>, <<"a", "/", "b">>, <<"a", "/", "b", "/", "c">>,
      <<"d">>, <<"d", "/", "e">> }

\* os.path.exists(p) for a directory tree
path_exists(tree, p) == p = <<>> \/ p \in tree

\* os.mkdir(path)
os_mkdir(tree, path) ==
    IF path_exists(tree, path)
    THEN [tree |-> tree, raised |-> "FileExistsError"]
    ELSE IF ~path_exists(tree, posixpath_split(path).head)
    THEN [tree |-> tree, raised |-> "FileNotFoundError"]
    ELSE [tree |-> tree \cup {path}, raised |-> "none"]

\* os.makedirs(name), exist_ok left at its default False
RECURSIVE os_makedirs(_, _)
os_makedirs(tree, name) ==
    LET first == posixpath_split(name)
        parts == IF first.tail = <<>> THEN posixpath_split(first.head) ELSE first
        parents == IF parts.head # <<>> /\ parts.tail # <<>> /\ ~path_exists(tree, parts.head)
                   THEN os_makedirs(tree, parts.head)
                   ELSE [tree |-> tree, raised |-> "none"]
    IN  IF parents.raised \notin {"none", "FileExistsError"}
        THEN parents
        ELSE os_mkdir(parents.tree, name)

\* lines 212-217
mkdir(tree, path, create_parents) ==
    IF create_parents THEN os_makedirs(tree, path) ELSE os_mkdir(tree, path)

MkdirInit ==
    /\ SingletonIdle /\ WalkIdle /\ IsdirIdle /\ MkdirIdle /\ EnsureIdle
    /\ DuIdle /\ ResolveIdle

mkdir_action ==
    /\ \E path \in MkdirPaths, create_parents \in BOOLEAN :
           LET r == mkdir(dirs, path, create_parents)
           IN  /\ dirs' = r.tree
               /\ mkdir_call' = [op |-> "mkdir", path |-> path,
                                 create_parents |-> create_parents,
                                 before |-> dirs, raised |-> r.raised]
    /\ UNCHANGED <<singletonVars, walkVars, isdir_call, ensure_call, duVars, resolve_call>>

MkdirNext == mkdir_action

SpecMkdir == MkdirInit /\ [][MkdirNext]_vars

\* C6: mkdir(path, create_parents=True) succeeds without raising whether or
\* not path or some of its ancestors exist, and leaves the tree unchanged
\* when path already exists.
C6_MkdirIdempotent ==
    (mkdir_call.op = "mkdir" /\ mkdir_call.create_parents) =>
        /\ mkdir_call.raised = "none"
        /\ mkdir_call.path \in dirs
        /\ mkdir_call.path \in mkdir_call.before => dirs = mkdir_call.before

(***************************************************************************)
(* _ensure_filesystem.  A type is its method-resolution order, a sequence  *)
(* of classes that starts with the type itself and ends with object.       *)
(***************************************************************************)
ClassPool ==
    { "pyarrow.FileSystem", "pyarrow.LocalFileSystem", "s3fs.S3FileSystem",
      "dask.LocalFileSystem", "user.Store", "user.Mixin" }

\* cls.__name__
ClassName(c) ==
    CASE c = "pyarrow.FileSystem" -> "FileSystem"
      [] c = "pyarrow.LocalFileSystem" -> "LocalFileSystem"
      [] c = "s3fs.S3FileSystem" -> "S3FileSystem"
      [] c = "dask.LocalFileSystem" -> "LocalFileSystem"
      [] c = "user.Store" -> "Store"
      [] c = "user.Mixin" -> "Mixin"
      [] c = "object" -> "object"

\* the linearizations Python can build from the pool: no class twice, and
\* pyarrow.LocalFileSystem followed by its base pyarrow.FileSystem
Mros ==
    { m \o <<"object">> :
        m \in { q \in UNION {[1..n -> ClassPool] : n \in 1..MaxMro} :
                  /\ \A i, j \in 1..Len(q) : i # j => q[i] # q[j]
                  /\ \A i \in 1..Len(q) :
                         q[i] = "pyarrow.LocalFileSystem" =>
                             \E j \in (i + 1)..Len(q) : q[j] = "pyarrow.FileSystem" } }

\* the object passed as fs
ForeignObject == 100

\* line 388: issubclass(fs_type, FileSystem)
issubclass_FileSystem(mro) == \E i \in 1..Len(mro) : mro[i] = "pyarrow.FileSystem"

\* lines 201-204, run by one thread without interruption
get_instance(instance) == IF instance = None THEN constructed + 1 ELSE instance

\* lines 389-397: the loop over inspect.getmro(fs_type), from position i
RECURSIVE ensure_loop(_, _)
ensure_loop(mro, i) ==
    IF i > Len(mro) THEN [kind |-> "IOError", type |-> mro[1]]
    ELSE IF ClassName(mro[i]) = "S3FileSystem"
         THEN [kind |-> "S3FSWrapper", fs |-> ForeignObject]
    ELSE IF ClassName(mro[i]) = "LocalFileSystem"
         THEN [kind |-> "LocalFileSystem", obj |-> get_instance(_instance)]
    ELSE ensure_loop(mro, i + 1)

\* the same lookup with the two names tested one after the other over the
\* whole ancestry
ensure_by_name(mro) ==
    IF issubclass_FileSystem(mro) THEN [kind |-> "fs", obj |-> ForeignObject]
    ELSE IF \E i \in 1..Len(mro) : ClassName(mro[i]) = "S3FileSystem"
         THEN [kind |-> "S3FSWrapper", fs |-> ForeignObject]
    ELSE IF \E i \in 1..Len(mro) : ClassName(mro[i]) = "LocalFileSystem"
         THEN [kind |-> "LocalFileSystem", obj |-> get_instance(_instance)]
    ELSE [kind |-> "IOError", type |-> mro[1]]

\* lines 383-399
_ensure_filesystem(mro) ==
    IF ~issubclass_FileSystem(mro)
    THEN ensure_loop(mro, 1)
    ELSE [kind |-> "fs", obj |-> ForeignObject]

EnsureInit ==
    /\ SingletonIdle /\ WalkIdle /\ IsdirIdle /\ MkdirIdle /\ EnsureIdle
    /\ DuIdle /\ ResolveIdle

ensure_action ==
    /\ \E mro \in Mros :
           LET r == _ensure_filesystem(mro)
           IN  /\ ensure_call' = [op |-> "ensure", mro |-> mro, result |-> r,
                                  before |-> _instance]
               /\ IF r.kind = "LocalFileSystem"
                  THEN /\ _instance' = r.obj
                       /\ constructed' = IF _instance = None THEN constructed + 1
                                         ELSE constructed
                  ELSE UNCHANGED <<_instance, constructed>>
    /\ UNCHANGED <<pc, tmp, returned, walkVars, isdir_call, mkdirVars, duVars, resolve_call>>

EnsureNext == ensure_action

SpecEnsure == EnsureInit /\ [][EnsureNext]_vars

\* the position of the first class of the ancestry with the given name,
\* beyond the end when there is none
FirstNamed(mro, name) ==
    IF \E i \in 1..Len(mro) : ClassName(mro[i]) = name
    THEN CHOOSE i \in 1..Len(mro) :
             /\ ClassName(mro[i]) = name
             /\ \A j \in 1..(i - 1) : ClassName(mro[j]) # name
    ELSE Len(mro) + 1

\* C7: _ensure_filesystem returns fs itself for a subclass of FileSystem;
\* otherwise an S3FSWrapper of fs or the LocalFileSystem singleton,
\* whichever of the names S3FileSystem and LocalFileSystem comes first in
\* the method-resolution order, and the unrecognized-filesystem error
\* naming the type when neither occurs.
C7_EnsureFilesystem ==
    ensure_call.op = "ensure" =>
        LET mro == ensure_call.mro
            r == ensure_call.result
            s3 == FirstNamed(mro, "S3FileSystem")
            local == FirstNamed(mro, "LocalFileSystem")
        IN  IF "pyarrow.FileSystem" \in Range(mro)
            THEN r = [kind |-> "fs", obj |-> ForeignObject]
            ELSE IF s3 < local
            THEN r = [kind |-> "S3FSWrapper", fs |-> ForeignObject]
            ELSE IF local < s3
            THEN /\ r.kind = "LocalFileSystem"
                 /\ r.obj = _instance
                 /\ r.obj # ForeignObject
                 /\ r.obj # None
                 /\ constructed = 1
                 /\ ensure_call.before # None => r.obj = ensure_call.before
            ELSE r = [kind |-> "IOError", type |-> mro[1]]

\* a foreign type with both names in its ancestry, LocalFileSystem first,
\* was resolved to the singleton that an earlier call created
C7_Witness ==
    /\ ensure_call.op = "ensure"
    /\ ~issubclass_FileSystem(ensure_call.mro)
    /\ FirstNamed(ensure_call.mro, "LocalFileSystem")
           < FirstNamed(ensure_call.mro, "S3FileSystem")
    /\ FirstNamed(ensure_call.mro, "S3FileSystem") <= Len(ensure_call.mro)
    /\ ensure_call.before # None
    /\ ensure_call.result.kind = "LocalFileSystem"

(***************************************************************************)
(* FileSystem.disk_usage over a backend that implements stat and walk.     *)
(* du_files maps the path of every file of the backend to its size; the    *)
(* directories are the proper ancestors of the files.                      *)
(***************************************************************************)
FilePaths ==
    { <<"d", "/", "f">>,
      <<"d", "/", "g">>,
      <<"d", "/", "s", "/", "f">>,
      <<"d", "/", "s", "/", "t", "/", "g">>,
      <<"e", "/", "f">> }

FileSizes == {1, 3}

BackendDirs(files) ==
    UNION { {SubSeq(f, 1, i - 1) : i \in {n \in 1..Len(f) : f[n] = "/"}} :
              f \in DOMAIN files }

\* lines 191-193
pathsep == <<"/">>

\* lines 90-91
_path_join(root, child) == root \o pathsep \o child

\* self.stat(path) of the backend
stat(files, path) ==
    IF path \in DOMAIN files
    THEN [kind |-> "file", size |-> files[path]]
    ELSE [kind |-> "directory", size |-> 0]

\* the names directly under the directory d among the paths
ChildNames(paths, d) ==
    {SubSeq(k, Len(d) + 2, Len(k)) :
        k \in {q \in paths : /\ StartsWith(q, d \o pathsep)
                             /\ Find1(SubSeq(q, Len(d) + 2, Len(q)), "/") = 0}}

\* self.walk(path) of the backend: top-down, a directory before its
\* subdirectories
RECURSIVE backend_walk(_, _), backend_walk_all(_, _, _)
backend_walk(files, d) ==
    LET subdirs == Sorted(SetToSeq(ChildNames(BackendDirs(files), d)))
        names == Sorted(SetToSeq(ChildNames(DOMAIN files, d)))
    IN  <<<<d, subdirs, names>>>> \o backend_walk_all(files, d, subdirs)
backend_walk_all(files, d, subdirs) ==
    IF subdirs = <<>> THEN <<>>
    ELSE backend_walk(files, _path_join(d, Head(subdirs)))
             \o backend_walk_all(files, d, Tail(subdirs))

\* the statement of a loop that overwrites the running total
du_assign(total, size) == size

\* line 86: total += size
du_add(total, size) == total + size

\* lines 84-86: the loop over the files of one triple
RECURSIVE du_triple(_, _, _, _)
du_triple(files, total, root, names) ==
    IF names = <<>> THEN total
    ELSE du_triple(files,
                   du_add(total, stat(files, _path_join(root, Head(names))).size),
                   root, Tail(names))

DuInit ==
    /\ \E present \in SUBSET FilePaths : du_files \in [present -> FileSizes]
    /\ du_path = <<>>
    /\ du_pc = "idle"
    /\ du_walk = <<>>
    /\ du_total = 0
    /\ du_stats = 0
    /\ du_walked = FALSE
    /\ SingletonIdle /\ WalkIdle /\ IsdirIdle /\ MkdirIdle /\ EnsureIdle /\ ResolveIdle

notDu == <<singletonVars, walkVars, isdir_call, mkdirVars, ensure_call, resolve_call>>

\* lines 77-83: stat the path; return the size of a file, start the walk of
\* a directory
disk_usage_start ==
    /\ du_pc = "idle"
    /\ \E path \in (DOMAIN du_files) \cup BackendDirs(du_files) :
           LET path_info == stat(du_files, path)
           IN  /\ du_path' = path
               /\ du_stats' = 1
               /\ IF path_info.kind = "file"
                  THEN /\ du_total' = path_info.size
                       /\ du_pc' = "done"
                       /\ UNCHANGED <<du_walk, du_walked>>
                  ELSE /\ du_total' = 0
                       /\ du_walk' = backend_walk(du_files, path)
                       /\ du_walked' = TRUE
                       /\ du_pc' = "walking"
    /\ UNCHANGED <<du_files, notDu>>

\* lines 83-86: one iteration of the loop over the walk
disk_usage_triple ==
    /\ du_pc = "walking"
    /\ du_walk # <<>>
    /\ LET triple == Head(du_walk)
       IN  /\ du_total' = du_triple(du_files, du_total, triple[1], triple[3])
           /\ du_stats' = du_stats + Len(triple[3])
    /\ du_walk' = Tail(du_walk)
    /\ UNCHANGED <<du_files, du_path, du_pc, du_walked, notDu>>

\* line 88: return total
disk_usage_return ==
    /\ du_pc = "walking"
    /\ du_walk = <<>>
    /\ du_pc' = "done"
    /\ UNCHANGED <<du_files, du_path, du_walk, du_total, du_stats, du_walked, notDu>>

DuNext == disk_usage_start \/ disk_usage_triple \/ disk_usage_return

SpecDiskUsage == DuInit /\ [][DuNext]_vars

RECURSIVE SumSizes(_, _)
SumSizes(files, paths) ==
    IF paths = {} THEN 0
    ELSE LET f == CHOOSE x \in paths : TRUE
         IN  files[f] + SumSizes(files, paths \ {f})

\* the files at any depth in the subtree of d
Subtree(d) == {f \in DOMAIN du_files : StartsWith(f, d \o <<"/">>)}

\* C8: disk_usage of a directory is the sum of the sizes of the files at any
\* depth in its subtree, each counted once and directories counting zero;
\* disk_usage of a file is its size, computed without calling walk.
C8_DiskUsageIsSubtreeSum ==
    du_pc = "done" =>
        IF du_path \in DOMAIN du_files
        THEN /\ du_total = du_files[du_path]
             /\ ~du_walked
             /\ du_stats = 1
        ELSE /\ du_total = SumSizes(du_files, Subtree(du_path))
             /\ du_stats = 1 + Cardinality(Subtree(du_path))

\* disk_usage returned for a directory with files at three depths and of
\* different sizes
C8_Witness ==
    /\ du_pc = "done"
    /\ du_walked
    /\ du_path = <<"d">>
    /\ Cardinality(Subtree(du_path)) = 4
    /\ \E f, g \in Subtree(du_path) : du_files[f] # du_files[g]

(***************************************************************************)
(* resolve_filesystem_and_path                                             *)
(***************************************************************************)
Letters ==
    { "a", "b", "d", "e", "f", "g", "h", "i", "l", "m", "o", "s", "t", "u",
      "v", "w", "x", "y" }

DecimalDigits == {"0", "1", "2", "3", "4", "5", "6", "7", "8", "9"}

\* characters with the Unicode property Numeric_Type other than decimal
OtherNumerics == {"SUP2"}

HdfsScheme == <<"h", "d", "f", "s">>
ViewfsScheme == <<"v", "i", "e", "w", "f", "s">>
FileScheme == <<"f", "i", "l", "e">>
DefaultHost == <<"d", "e", "f", "a", "u", "l", "t">>

\* the first position from start on of one of the characters, beyond the
\* end when there is none
FindAny(s, chars, start) ==
    IF \E i \in start..Len(s) : s[i] \in chars
    THEN CHOOSE i \in start..Len(s) :
             s[i] \in chars /\ \A j \in start..(i - 1) : s[j] \notin chars
    ELSE Len(s) + 1

\* urllib.parse.urlparse(url): scheme, netloc and path
urlparse(url) ==
    LET colon == Find1(url, ":")
        hasScheme == /\ colon > 1
                     /\ url[1] \in Letters
                     /\ \A k \in 1..(colon - 1) : url[k] \in Letters \cup DecimalDigits
        scheme == IF hasScheme THEN SubSeq(url, 1, colon - 1) ELSE <<>>
        rest == IF hasScheme THEN SubSeq(url, colon + 1, Len(url)) ELSE url
        hasNetloc == Len(rest) >= 2 /\ SubSeq(rest, 1, 2) = <<"/", "/">>
        delim == FindAny(rest, {"/", "?", "#"}, 3)
        netloc == IF hasNetloc THEN SubSeq(rest, 3, delim - 1) ELSE <<>>
        afterNetloc == IF hasNetloc THEN SubSeq(rest, delim, Len(rest)) ELSE rest
        noFragment == SubSeq(afterNetloc, 1, FindAny(afterNetloc, {"#"}, 1) - 1)
        path == SubSeq(noFragment, 1, FindAny(noFragment, {"?"}, 1) - 1)
    IN  [scheme |-> scheme, netloc |-> netloc, path |-> path]

\* s.split(c)
RECURSIVE StrSplit(_, _)
StrSplit(s, c) ==
    LET i == Find1(s, c)
    IN  IF i = 0 THEN <<s>>
        ELSE <<SubSeq(s, 1, i - 1)>> \o StrSplit(SubSeq(s, i + 1, Len(s)), c)

\* s.isnumeric()
isnumeric(s) ==
    s # <<>> /\ \A i \in 1..Len(s) : s[i] \in DecimalDigits \cup OtherNumerics

\* int(s) accepts the decimal digits only
int_accepts(s) == s # <<>> /\ \A i \in 1..Len(s) : s[i] \in DecimalDigits

RECURSIVE int_value(_)
int_value(s) ==
    IF s = <<>> THEN 0
    ELSE 10 * int_value(SubSeq(s, 1, Len(s) - 1)) + (Code(s[Len(s)]) - 48)

\* lines 418-441: the resolution of a path string without explicit filesystem
resolve_uri(where) ==
    LET parsed_uri == urlparse(where)
    IN  IF parsed_uri.scheme = HdfsScheme \/ parsed_uri.scheme = ViewfsScheme
        THEN LET netloc_split == StrSplit(parsed_uri.netloc, ":")
                 host == IF netloc_split[1] = <<>> THEN DefaultHost
                         ELSE parsed_uri.scheme \o <<":", "/", "/">> \o netloc_split[1]
             IN  IF Len(netloc_split) = 2 /\ isnumeric(netloc_split[2])
                 THEN IF int_accepts(netloc_split[2])
                      THEN [outcome |-> "ok",
                            fs |-> [kind |-> "hdfs", host |-> host,
                                    port |-> int_value(netloc_split[2])],
                            path |-> parsed_uri.path]
                      ELSE [outcome |-> "ValueError"]
                 ELSE [outcome |-> "ok",
                       fs |-> [kind |-> "hdfs", host |-> host, port |-> 0],
                       path |-> parsed_uri.path]
        ELSE IF parsed_uri.scheme = FileScheme
        THEN [outcome |-> "ok",
              fs |-> [kind |-> "LocalFileSystem", obj |-> get_instance(_instance)],
              path |-> parsed_uri.path]
        ELSE [outcome |-> "ok",
              fs |-> [kind |-> "LocalFileSystem", obj |-> get_instance(_instance)],
              path |-> where]

\* filesystem=None, as an empty ancestry
NoFilesystem == <<>>

\* lines 402-441.  pathlike tells whether where is a path or an open
\* stream; filesystem is None or the ancestry of the object passed
resolve_filesystem_and_path(where, pathlike, filesystem) ==
    IF ~pathlike
    THEN IF filesystem # NoFilesystem
         THEN [outcome |-> "ValueError"]
         ELSE [outcome |-> "ok", fs |-> [kind |-> "None"], path |-> where]
    ELSE IF filesystem # NoFilesystem
    THEN LET r == _ensure_filesystem(filesystem)
         IN  IF r.kind = "IOError" THEN [outcome |-> "IOError"]
             ELSE [outcome |-> "ok", fs |-> r, path |-> where]
    ELSE resolve_uri(where)

ResolveSchemes == {<<>>, HdfsScheme, ViewfsScheme, FileScheme}

ResolveNetlocs ==
    { <<>>, <<"h">>, <<"h", ":", "9">>, <<"h", ":", "9", "0">>, <<":", "9">>,
      <<"h", ":">>, <<"h", ":", "x">>, <<"h", ":", "1", ":", "2">>,
      <<"h", ":", "SUP2">>, <<"h", ":", "9", "SUP2">>,
      <<"m", "y", "h", "o", "s", "t", ":", "9", "0", "0", "0">> }

ResolvePaths == { <<>>, <<"/", "x">>, <<"/", "d", "/", "x">> }

ResolveSuffixes == { <<>>, <<"?", "a">>, <<"#", "a">> }

ResolveFilesystems ==
    { NoFilesystem, <<"s3fs.S3FileSystem", "object">>, <<"user.Store", "object">> }

\* the location string scheme://netloc/path, or the bare path
Location(scheme, netloc, path, suffix) ==
    IF scheme = <<>> THEN path \o suffix
    ELSE scheme \o <<":", "/", "/">> \o netloc \o path \o suffix

ResolveInit ==
    /\ SingletonIdle /\ WalkIdle /\ IsdirIdle /\ MkdirIdle /\ EnsureIdle
    /\ DuIdle /\ ResolveIdle

\* the calls made: every location without explicit filesystem, and two
\* locations as a stream or with an explicit filesystem
ResolveInputs ==
    { [scheme |-> sc, netloc |-> n, path |-> p, suffix |-> sx, pathlike |-> TRUE,
       filesystem |-> NoFilesystem] :
        sc \in ResolveSchemes, n \in ResolveNetlocs, p \in ResolvePaths,
        sx \in ResolveSuffixes }
    \cup
    { [scheme |-> sc, netloc |-> <<"h">>, path |-> <<"/", "x">>, suffix |-> <<>>,
       pathlike |-> pl, filesystem |-> f] :
        sc \in {<<>>, HdfsScheme}, pl \in BOOLEAN, f \in ResolveFilesystems }

resolve_action ==
    /\ \E in \in ResolveInputs :
           LET where == Location(in.scheme, in.netloc, in.path, in.suffix)
               r == resolve_filesystem_and_path(where, in.pathlike, in.filesystem)
               local == r.outcome = "ok" /\ r.fs.kind = "LocalFileSystem"
           IN  /\ resolve_call' = [op |-> "resolve", where |-> where,
                                   pathlike |-> in.pathlike,
                                   filesystem |-> in.filesystem,
                                   scheme |-> in.scheme, netloc |-> in.netloc,
                                   upath |-> in.path, result |-> r]
               /\ _instance' = IF local THEN r.fs.obj ELSE _instance
               /\ constructed' = IF local /\ _instance = None THEN constructed + 1
                                 ELSE constructed
    /\ UNCHANGED <<pc, tmp, returned, walkVars, isdir_call, mkdirVars, ensure_call, duVars>>

ResolveNext == resolve_action

SpecResolve == ResolveInit /\ [][ResolveNext]_vars

\* C9: for a location with scheme hdfs or viewfs and no explicit
\* filesystem, the distributed backend is connected with host
\* scheme://host for a non-empty host part of the authority and the
\* sentinel default otherwise, with the integer value of the port when a
\* port is present and numeric and 0 otherwise, and the URI's path
\* component is returned as the path.
C9_HdfsResolution ==
    ( /\ resolve_call.op = "resolve"
      /\ resolve_call.pathlike
      /\ resolve_call.filesystem = NoFilesystem
      /\ resolve_call.scheme \in {HdfsScheme, ViewfsScheme} ) =>
        LET netloc == resolve_call.netloc
            colon == Find1(netloc, ":")
            hostpart == IF colon = 0 THEN netloc ELSE SubSeq(netloc, 1, colon - 1)
            portpart == IF colon = 0 THEN <<>> ELSE SubSeq(netloc, colon + 1, Len(netloc))
            r == resolve_call.result
        IN  /\ r.outcome = "ok"
            /\ r.fs.kind = "hdfs"
            /\ r.fs.host = IF hostpart = <<>> THEN DefaultHost
                           ELSE resolve_call.scheme \o <<":", "/", "/">> \o hostpart
            /\ r.fs.port = IF portpart # <<>> /\ \A i \in 1..Len(portpart) :
                                                    portpart[i] \in DecimalDigits
                           THEN int_value(portpart) ELSE 0
            /\ r.path = resolve_call.upath

====
